---- MODULE Spec2Model ----
(***************************************************************************)
(* Model of the webhook ingestion service: signature verification, payload *)
(* validation, the SQLite message store (idempotent insert, listing,       *)
(* statistics) and the HTTP handlers in front of them.                     *)
(*                                                                         *)
(* Strings are sequences of code points (<<43, 49>> is "+1"), so that the  *)
(* comparisons, the case folding and the character classes of the code are *)
(* computed and not assumed.  None (Python None, SQL NULL) is the sequence *)
(* <<-1>>, which is no string.                                             *)
(***************************************************************************)
EXTENDS Integers, Sequences, FiniteSets, TLC

None == << -1 >>

\* Python truthiness of an Optional[str]: None and "" are falsy.
Truthy(v) == v # None /\ v # << >>

(***************************************************************************)
(* Bounds of the model.                                                    *)
(***************************************************************************)
MaxClock == 2
MaxLimit == 2
MaxOffset == 2
MaxPerSender == 2
ExtraSenders == 1
MaxPhoneLen == 2
MaxTsLen == 3
MaxStoredText == 2
MaxQLen == 2

(***************************************************************************)
(* String helpers.                                                         *)
(***************************************************************************)
\* str.startswith / str.endswith with a one-character argument.
StartsWith(s, c) == Len(s) > 0 /\ s[1] = c

EndsWith(s, c) == Len(s) > 0 /\ s[Len(s)] = c

\* Code-point order of two strings (Python str comparison, SQLite BINARY
\* collation): -1, 0 or 1.
RECURSIVE StrCmp(_, _)
StrCmp(a, b) ==
    IF a = << >> /\ b = << >> THEN 0
    ELSE IF a = << >> THEN -1
    ELSE IF b = << >> THEN 1
    ELSE IF Head(a) < Head(b) THEN -1
    ELSE IF Head(a) > Head(b) THEN 1
    ELSE StrCmp(Tail(a), Tail(b))

StrLe(a, b) == StrCmp(a, b) <= 0

StrLt(a, b) == StrCmp(a, b) < 0

\* str.isdigit() on one character: the ASCII digits and the other code
\* points of Unicode category Nd/No-digit (here superscript two, U+00B2, and
\* the Arabic-Indic digits U+0660..U+0669).
IsDigitChar(c) == (c >= 48 /\ c <= 57) \/ c = 178 \/ (c >= 1632 /\ c <= 1641)

\* str.isdigit(): non-empty and every character a digit.
IsDigit(s) == Len(s) > 0 /\ \A i \in 1..Len(s) : IsDigitChar(s[i])

\* str.replace("Z", "+00:00"), the offset abbreviated to "+0".
RECURSIVE ReplaceZ(_)
ReplaceZ(s) ==
    IF s = << >> THEN << >>
    ELSE IF Head(s) = 90 THEN <<43, 48>> \o ReplaceZ(Tail(s))
    ELSE <<Head(s)>> \o ReplaceZ(Tail(s))

\* datetime.fromisoformat succeeds: on the abbreviated grammar a date-time is
\* a non-empty run of ASCII digits, optionally followed by the offset "+0".
FromIsoFormatOk(s) ==
    LET n == Len(s)
        AsciiDigits(t) == Len(t) > 0 /\ \A i \in 1..Len(t) : t[i] >= 48 /\ t[i] <= 57
    IN  \/ AsciiDigits(s)
        \/ /\ n >= 3
           /\ s[n - 1] = 43 /\ s[n] = 48
           /\ AsciiDigits(SubSeq(s, 1, n - 2))

(***************************************************************************)
(* Signature verifier.                                                     *)
(***************************************************************************)
\* The raw request bodies, by what json.loads / WebhookRequest make of them:
\* "utf8err" (body.decode() raises UnicodeDecodeError), "jsonerr" (json.loads
\* raises JSONDecodeError), "nonobject" (valid JSON that is no object), and
\* "object" with the five fields (None where a key is missing or null).
NoObj == [message_id |-> None, from |-> None, to |-> None, ts |-> None, text |-> None]

Body(kind, obj) == [kind |-> kind, obj |-> obj]

\* hmac.new(key, body, sha256).hexdigest(): an injective tag of (key, body);
\* the digest is always an ASCII string.
Hmac(key, body) == [kind |-> "hex", key |-> key, body |-> body]

\* The X-Signature header: absent, empty, holding a non-ASCII character
\* (header values decode as latin-1), or a hex digest.
NoSig == [kind |-> "absent", key |-> None, body |-> Body("jsonerr", NoObj)]

EmptySig == [kind |-> "empty", key |-> None, body |-> Body("jsonerr", NoObj)]

NonAsciiSig == [kind |-> "nonascii", key |-> None, body |-> Body("jsonerr", NoObj)]

\* `not x_signature`
SigFalsy(sig) == sig.kind \in {"absent", "empty"}

\* hmac.compare_digest(a, b) on two str: TypeError unless both are ASCII.
CompareDigest(expected, signature) ==
    IF signature.kind = "nonascii" THEN "raise"
    ELSE IF expected = signature THEN "true"
    ELSE "false"

\* verify_signature: "false", "true", or "raise" (the TypeError escapes).
verify_signature(secret, body, signature) ==
    IF ~Truthy(secret) THEN "false"
    ELSE CompareDigest(Hmac(secret, body), signature)

(***************************************************************************)
(* Message validator (WebhookRequest).                                     *)
(***************************************************************************)
MaxTextLen == 4096

validate_phone_number(v) ==
    StartsWith(v, 43) /\ IsDigit(Tail(v))

\* The validator without its test of the suffix.
validate_timestamp_NoSuffix(v) == FromIsoFormatOk(ReplaceZ(v))

validate_timestamp(v) ==
    FromIsoFormatOk(ReplaceZ(v)) /\ EndsWith(v, 90)

\* WebhookRequest(**body_json) raises no ValidationError: the required str
\* fields are present, message_id is non-empty, text is optional.
WebhookRequestOk(o) ==
    /\ o.message_id # None /\ Len(o.message_id) >= 1
    /\ o.from # None /\ validate_phone_number(o.from)
    /\ o.to # None /\ validate_phone_number(o.to)
    /\ o.ts # None /\ validate_timestamp(o.ts)
    /\ (o.text # None => Len(o.text) <= MaxTextLen)

(***************************************************************************)
(* Ingestion pipeline of the webhook handler, up to the store.             *)
(***************************************************************************)
\* The stage at which the handler leaves the pure part of POST /webhook:
\* "invalid_signature" (401), "unhandled" (an exception no except clause
\* catches; the framework answers 500), "validation_error" (422), or
\* "store" (insert_message is called).
Pipeline(secret, sig, body) ==
    IF SigFalsy(sig) THEN "invalid_signature"
    ELSE LET v == verify_signature(secret, body, sig) IN
         IF v = "raise" THEN "unhandled"
         ELSE IF v = "false" THEN "invalid_signature"
         ELSE IF body.kind = "utf8err" THEN "unhandled"
         ELSE IF body.kind = "jsonerr" THEN "validation_error"
         ELSE IF body.kind = "nonobject" THEN "unhandled"
         ELSE IF ~WebhookRequestOk(body.obj) THEN "validation_error"
         ELSE "store"

\* HTTP status of each webhook result.
StatusOf(result) ==
    CASE result = "invalid_signature" -> 401
      [] result = "validation_error" -> 422
      [] result = "insert_error" -> 500
      [] result = "unhandled" -> 500
      [] OTHER -> 200

\* The result the handler derives from insert_message's (success, is_duplicate).
ResultOf(success, is_duplicate) ==
    IF ~success THEN "insert_error"
    ELSE IF is_duplicate THEN "duplicate"
    ELSE "created"

(***************************************************************************)
(* Message store: the messages table and insert_message.                   *)
(***************************************************************************)
\* datetime.utcnow().isoformat() + "Z" at clock reading t.
CreatedAt(t) == <<48 + t, 90>>

Row(a, created_at) ==
    [message_id |-> a.message_id, from_msisdn |-> a.from, to_msisdn |-> a.to,
     ts |-> a.ts, text |-> a.text, created_at |-> created_at]

\* The messages table declared without its PRIMARY KEY.
PrimaryKeyConflict_NoKey(S, row) == FALSE

\* message_id TEXT PRIMARY KEY: a second row with the same non-NULL key.
PrimaryKeyConflict(S, row) ==
    row.message_id # None /\ \E r \in S : r.message_id = row.message_id

\* from_msisdn, to_msisdn, ts, created_at are NOT NULL.
NotNullViolation(row) ==
    row.from_msisdn = None \/ row.to_msisdn = None \/ row.ts = None
        \/ row.created_at = None

\* cursor.execute(INSERT ...) raises sqlite3.IntegrityError.
IntegrityError(S, row) == PrimaryKeyConflict(S, row) \/ NotNullViolation(row)

\* conn.commit() of the pending INSERT.
Commit(S, row) == S \cup {row}

\* An upsert in place of the rollback: the stored row is overwritten.
Rollback_Upsert(S, row) ==
    IF NotNullViolation(row) THEN S
    ELSE {r \in S : r.message_id # row.message_id} \cup {row}

\* conn.rollback() after the IntegrityError: the table is as it was.
Rollback(S, row) == S

(***************************************************************************)
(* Message store: get_messages.                                            *)
(***************************************************************************)
\* SQLite LOWER(): folds the ASCII letters only.
SqlLowerChar(c) == IF c >= 65 /\ c <= 90 THEN c + 32 ELSE c

SqlLower(s) == [i \in 1..Len(s) |-> SqlLowerChar(s[i])]

\* str.lower(): folds the ASCII letters and the Latin-1 capitals
\* U+00C0..U+00DE (but U+00D7, the multiplication sign).
PyLowerChar(c) ==
    IF (c >= 65 /\ c <= 90) \/ (c >= 192 /\ c <= 222 /\ c # 215) THEN c + 32 ELSE c

PyLower(s) == [i \in 1..Len(s) |-> PyLowerChar(s[i])]

\* SQLite `text LIKE pattern`: '%' (37) matches any run of characters, '_'
\* (95) any one character, every other character itself up to ASCII case.
RECURSIVE Like(_, _)
Like(t, p) ==
    IF p = << >> THEN t = << >>
    ELSE IF Head(p) = 37 THEN Like(t, Tail(p)) \/ (t # << >> /\ Like(Tail(t), p))
    ELSE IF t = << >> THEN FALSE
    ELSE IF Head(p) = 95 THEN Like(Tail(t), Tail(p))
    ELSE SqlLowerChar(Head(t)) = SqlLowerChar(Head(p)) /\ Like(Tail(t), Tail(p))

\* The WHERE clause get_messages builds: a condition is added for each
\* argument that is truthy; a NULL text makes the LIKE condition NULL.
WhereClause(a, r) ==
    /\ (Truthy(a.from_msisdn) => r.from_msisdn = a.from_msisdn)
    /\ (Truthy(a.since) => StrLe(a.since, r.ts))
    /\ (Truthy(a.q) =>
            r.text # None /\ Like(SqlLower(r.text), <<37>> \o PyLower(a.q) \o <<37>>))

\* A total that counts the rows of the page, not of the table.
CountQuery_Page(S, a) ==
    LET n == Cardinality({r \in S : WhereClause(a, r)})
    IN  IF n - a.offset < 0 THEN 0
        ELSE IF n - a.offset < a.limit THEN n - a.offset ELSE a.limit

\* SELECT COUNT(*) FROM messages WHERE ...
CountQuery(S, a) == Cardinality({r \in S : WhereClause(a, r)})

\* ORDER BY ts ASC, message_id DESC
RowBefore_IdDesc(r1, r2) ==
    \/ StrLt(r1.ts, r2.ts)
    \/ r1.ts = r2.ts /\ StrLt(r2.message_id, r1.message_id)

\* ORDER BY ts ASC, message_id ASC
RowBefore(r1, r2) ==
    \/ StrLt(r1.ts, r2.ts)
    \/ r1.ts = r2.ts /\ StrLt(r1.message_id, r2.message_id)

RECURSIVE OrderBy(_)
OrderBy(S) ==
    IF S = {} THEN << >>
    ELSE LET m == CHOOSE r \in S : \A o \in S : ~RowBefore(o, r)
         IN  <<m>> \o OrderBy(S \ {m})

\* LIMIT ? OFFSET ?
LimitOffset(seq, limit, offset) ==
    LET last == IF offset + limit < Len(seq) THEN offset + limit ELSE Len(seq)
    IN  SubSeq(seq, offset + 1, last)

\* The dict built from a fetched row (created_at is not selected).
Item(r) ==
    [message_id |-> r.message_id, from |-> r.from_msisdn, to |-> r.to_msisdn,
     ts |-> r.ts, text |-> r.text]

\* SELECT ... WHERE ... ORDER BY ts ASC, message_id ASC LIMIT ? OFFSET ?
SelectQuery(S, a) ==
    LET rows == LimitOffset(OrderBy({r \in S : WhereClause(a, r)}), a.limit, a.offset)
    IN  [i \in 1..Len(rows) |-> Item(rows[i])]

(***************************************************************************)
(* Message store: get_stats.                                               *)
(***************************************************************************)
TopN == 10

\* SELECT COUNT(*) FROM messages
TotalQuery(S) == Cardinality(S)

\* SELECT COUNT(DISTINCT from_msisdn) FROM messages (NULLs are not counted)
SendersQuery(S) == Cardinality({r.from_msisdn : r \in S} \ {None})

\* The order in which SQLite returns rows that tie on the ORDER BY key is not
\* specified by SQL.  Its sorter is a fixed algorithm: it returns tied rows
\* either in the order it was given them ("asc") or in the reverse ("desc").
TieOrders == {"asc", "desc"}

\* SCAN messages: the rows of the table by rowid, that is in the order of
\* their insertion; ids lists the message_ids by rowid.
Scan(S, ids) == [i \in 1..Len(ids) |-> CHOOSE r \in S : r.message_id = ids[i]]

\* The distinct senders of a scan, least first.
RECURSIVE SortKeys(_)
SortKeys(G) ==
    IF G = {} THEN << >>
    ELSE LET m == CHOOSE g \in G : \A o \in G : StrLe(g, o)
         IN  <<m>> \o SortKeys(G \ {m})

\* The distinct senders of a scan in the order of their first row.
RECURSIVE FirstSeen(_)
FirstSeen(scan) ==
    IF scan = << >> THEN << >>
    ELSE LET rest == FirstSeen(SubSeq(scan, 1, Len(scan) - 1))
             k == scan[Len(scan)].from_msisdn
         IN  IF \E i \in 1..Len(rest) : rest[i] = k THEN rest ELSE Append(rest, k)

GroupCounts(scan, keys) ==
    [i \in 1..Len(keys) |->
        [from |-> keys[i],
         count |-> Cardinality({j \in 1..Len(scan) : scan[j].from_msisdn = keys[i]})]]

\* A GROUP BY that aggregates while it scans, without sorting: the groups
\* come in the order of each sender's first row.
GroupBy_ScanOrder(scan) == GroupCounts(scan, FirstSeen(scan))

\* SELECT from_msisdn, COUNT(*) ... GROUP BY from_msisdn: no index holds
\* from_msisdn, so the scanned rows are sorted by it (temporary B-tree) and
\* the groups come least sender first.
GroupBy(scan) == GroupCounts(scan, SortKeys({scan[j].from_msisdn : j \in 1..Len(scan)}))

\* The query without its ORDER BY: the groups as GROUP BY returns them.
SortSenders_Unordered(groups, tie) == groups

\* ORDER BY count DESC: the groups by falling count, groups of one count in
\* the sorter's tie order.
SortSenders(groups, tie) ==
    LET n == Len(groups)
        before(i, j) ==
            \/ groups[i].count > groups[j].count
            \/ groups[i].count = groups[j].count
                   /\ (IF tie = "asc" THEN i < j ELSE i > j)
        rank(i) == 1 + Cardinality({j \in 1..n : before(j, i)})
    IN  [k \in 1..n |-> groups[CHOOSE i \in 1..n : rank(i) = k]]

\* ... LIMIT 10
TopQuery(scan, tie) == LimitOffset(SortSenders(GroupBy(scan), tie), TopN, 0)

\* SELECT MIN(ts), MAX(ts): NULL on an empty table; the handler also maps a
\* falsy value to None.
MinTs(S) ==
    IF S = {} THEN None
    ELSE LET m == CHOOSE r \in S : \A o \in S : StrLe(r.ts, o.ts)
         IN  IF Truthy(m.ts) THEN m.ts ELSE None

MaxTs(S) ==
    IF S = {} THEN None
    ELSE LET m == CHOOSE r \in S : \A o \in S : StrLe(o.ts, r.ts)
         IN  IF Truthy(m.ts) THEN m.ts ELSE None

(***************************************************************************)
(* State.                                                                  *)
(***************************************************************************)
VARIABLES
    store,      \* the rows of the messages table
    secret,     \* settings.WEBHOOK_SECRET
    lock,       \* the call holding SQLite's write lock, 0 when it is free
    call,       \* for each worker, the request it serves and how far it got
    rowids,     \* the message_ids of the stored rows in the order of insertion
    tieOrder    \* the tie order of the SQLite library's sorter

vars == <<store, secret, lock, call, rowids, tieOrder>>

Procs == {1, 2}

(***************************************************************************)
(* Inputs.                                                                 *)
(***************************************************************************)
K1 == <<107, 49>>

K2 == <<107, 50>>

Secrets == {None, K1}

Ids == {<<97>>, <<98>>}

Msg(id, from, to, ts, text) ==
    [message_id |-> id, from |-> from, to |-> to, ts |-> ts, text |-> text]

\* Valid messages: under either id, "+1" to "+9" at "1Z" saying "Hi"; under
\* the first id also "+2" to "+8" at "2Z" without text.
ValidObjs ==
    {Msg(id, <<43, 49>>, <<43, 57>>, <<49, 90>>, <<72, 105>>) : id \in Ids}
        \cup {Msg(<<97>>, <<43, 50>>, <<43, 56>>, <<50, 90>>, None)}

\* Invalid messages: empty id, sender without "+" and unparseable time; and
\* a time without the "Z".
InvalidObjs ==
    {Msg(<< >>, <<49>>, <<43, 57>>, <<120>>, <<72, 105>>),
     Msg(<<97>>, <<43, 49>>, <<43, 57>>, <<49>>, <<72, 105>>)}

Bodies ==
    {Body("utf8err", NoObj), Body("jsonerr", NoObj), Body("nonobject", NoObj)}
        \cup {Body("object", o) : o \in ValidObjs \cup InvalidObjs}

\* The signatures a request with body b may carry: none, empty, non-ASCII,
\* the digest of b under the key K1 and under another key.
SigsFor(b) == {NoSig, EmptySig, NonAsciiSig, Hmac(K1, b), Hmac(K2, b)}

\* Arguments of direct insert_message calls: a valid message, and messages
\* with from_msisdn=None.
DirectArgs ==
    {Msg(<<98>>, <<43, 49>>, <<43, 57>>, <<49, 90>>, <<72, 105>>)}
        \cup {Msg(id, None, <<43, 57>>, <<49, 90>>, <<72, 105>>) : id \in Ids}

NoFilter(limit, offset) ==
    [limit |-> limit, offset |-> offset, from_msisdn |-> None, since |-> None, q |-> None]

ListArgs == {NoFilter(l, 0) : l \in {1, 2}}

(***************************************************************************)
(* Calls.                                                                  *)
(***************************************************************************)
Idle == [op |-> "idle", pc |-> "idle"]

IsInsert(c) == c.op \in {"webhook", "insert"}

InFlight(c) == IsInsert(c) /\ c.pc \in {"exec", "commit"}

\* A webhook request that ended before the store was called.
Rejected(sig, body, result) ==
    [op |-> "webhook", pc |-> "done", sig |-> sig, body |-> body, args |-> NoObj,
     created_at |-> None, result |-> result, status |-> StatusOf(result),
     pre |-> FALSE, raced |-> {}, after |-> {}, envFault |-> FALSE]

\* A call of insert_message, by the webhook handler or directly.  pre, raced,
\* after and envFault are history: whether the key was stored when the call
\* began, which workers' inserts of the key overlapped it, which workers had
\* answered a webhook request for the key when it began, and whether the
\* database was unreachable at one of its steps.
Inserting(p, op, sig, body, a, t) ==
    [op |-> op, pc |-> "exec", sig |-> sig, body |-> body, args |-> a,
     created_at |-> CreatedAt(t), result |-> "pending", status |-> 0,
     pre |-> \E r \in store : r.message_id = a.message_id,
     raced |-> {q \in Procs \ {p} :
                   InFlight(call[q]) /\ call[q].args.message_id = a.message_id},
     after |-> {q \in Procs \ {p} :
                   /\ op = "webhook"
                   /\ call[q].op = "webhook" /\ call[q].pc = "done"
                   /\ call[q].body.obj.message_id = a.message_id},
     envFault |-> FALSE]

\* The calls after worker p began inserting: an overlapping insert of the
\* same key has raced with p.
WithInsert(p, c) ==
    [q \in Procs |->
        IF q = p THEN c
        ELSE IF InFlight(call[q]) /\ call[q].args.message_id = c.args.message_id
             THEN [call[q] EXCEPT !.raced = @ \cup {p}]
             ELSE call[q]]

\* insert_message returns (success, is_duplicate); the webhook handler maps
\* it to its response.
Returned(c, success, is_duplicate, fault) ==
    LET result == ResultOf(success, is_duplicate) IN
    [c EXCEPT !.pc = "done", !.result = result,
              !.status = IF c.op = "webhook" THEN StatusOf(result) ELSE 0,
              !.envFault = fault]

(***************************************************************************)
(* Initial state: a fresh database after _init_db.  The workers share one  *)
(* SQLite library, here one whose sorter reverses tied rows; the other tie *)
(* order is taken up where ties arise, in SpecStats.                       *)
(***************************************************************************)
Init ==
    /\ store = {}
    /\ secret \in Secrets
    /\ lock = 0
    /\ call = [p \in Procs |-> Idle]
    /\ rowids = << >>
    /\ tieOrder = "desc"

(***************************************************************************)
(* POST /webhook and insert_message.                                       *)
(***************************************************************************)
\* The handler up to the call of insert_message, which reads the wall clock:
\* t is the reading.
WebhookStart(p, sig, body, t) ==
    /\ call[p].op = "idle"
    /\ LET stage == Pipeline(secret, sig, body) IN
       IF stage = "store"
       THEN call' = WithInsert(p, Inserting(p, "webhook", sig, body, body.obj, t))
       ELSE call' = [call EXCEPT ![p] = Rejected(sig, body, stage)]
    /\ UNCHANGED <<store, secret, lock, rowids, tieOrder>>

\* insert_message called by other code than the handler.
InsertStart(p, a, t) ==
    /\ call[p].op = "idle"
    /\ call' = WithInsert(p, Inserting(p, "insert", NoSig, Body("jsonerr", NoObj), a, t))
    /\ UNCHANGED <<store, secret, lock, rowids, tieOrder>>

\* What cursor.execute(INSERT) does once the write lock is free: "integrity"
\* (IntegrityError, rolled back and reported as a duplicate) or "pending".
ExecOutcome(S, row) == IF IntegrityError(S, row) THEN "integrity" ELSE "pending"

\* No write lock: the key is checked and the row written without excluding
\* other writers.
MustWait_NoLock(p) == FALSE

\* Whether a statement that needs the write lock must wait (busy handler).
MustWait(p) == lock # 0 /\ lock # p

\* connect and cursor.execute(INSERT ...).
InsertExec(p, up) ==
    /\ IsInsert(call[p]) /\ call[p].pc = "exec"
    /\ IF ~up
       THEN /\ call' = [call EXCEPT ![p] = Returned(call[p], FALSE, FALSE, TRUE)]
            /\ UNCHANGED <<store, lock>>
       ELSE /\ ~MustWait(p)
            /\ IF ExecOutcome(store, Row(call[p].args, call[p].created_at)) = "integrity"
               THEN /\ call' = [call EXCEPT ![p] = Returned(call[p], TRUE, TRUE, FALSE)]
                    /\ store' = Rollback(store, Row(call[p].args, call[p].created_at))
                    /\ UNCHANGED lock
               ELSE /\ call' = [call EXCEPT ![p].pc = "commit"]
                    /\ lock' = p
                    /\ UNCHANGED store
    /\ UNCHANGED <<secret, rowids, tieOrder>>

\* conn.commit(): the new row gets the next rowid.
InsertCommit(p, up) ==
    /\ IsInsert(call[p]) /\ call[p].pc = "commit"
    /\ lock' = 0
    /\ IF up
       THEN /\ store' = Commit(store, Row(call[p].args, call[p].created_at))
            /\ rowids' = Append(rowids, call[p].args.message_id)
            /\ call' = [call EXCEPT ![p] = Returned(call[p], TRUE, FALSE, FALSE)]
       ELSE /\ call' = [call EXCEPT ![p] = Returned(call[p], FALSE, FALSE, TRUE)]
            /\ UNCHANGED <<store, rowids>>
    /\ UNCHANGED <<secret, tieOrder>>

(***************************************************************************)
(* GET /messages, GET /stats, GET /health/ready.                           *)
(***************************************************************************)
\* afterFailure is history: whether another worker's listing had ended in a
\* storage error when this one began.
ListStart(p, a) ==
    /\ call[p].op = "idle"
    /\ call' = [call EXCEPT ![p] =
                   [op |-> "list", pc |-> "count", a |-> a, total |-> 0,
                    items |-> << >>, err |-> FALSE, status |-> 0,
                    afterFailure |-> \E q \in Procs \ {p} :
                        call[q].op = "list" /\ call[q].pc = "done" /\ call[q].err]]
    /\ UNCHANGED <<store, secret, lock, rowids, tieOrder>>

\* An except clause that empties the items but keeps the total already read.
ListFailed_KeepTotal(c) ==
    [c EXCEPT !.pc = "done", !.items = << >>, !.err = TRUE, !.status = 200]

\* The exception path of get_messages: ([], 0), which the handler answers
\* with 200.
ListFailed(c) ==
    [c EXCEPT !.pc = "done", !.total = 0, !.items = << >>, !.err = TRUE, !.status = 200]

\* The COUNT(*) statement.
ListCount(p, up) ==
    /\ call[p].op = "list" /\ call[p].pc = "count"
    /\ call' = [call EXCEPT ![p] =
                   IF up THEN [call[p] EXCEPT !.pc = "select",
                                                !.total = CountQuery(store, call[p].a)]
                   ELSE ListFailed(call[p])]
    /\ UNCHANGED <<store, secret, lock, rowids, tieOrder>>

\* The SELECT statement; the handler answers 200 with the items and total.
ListSelect(p, up) ==
    /\ call[p].op = "list" /\ call[p].pc = "select"
    /\ call' = [call EXCEPT ![p] =
                   IF up THEN [call[p] EXCEPT !.pc = "done", !.status = 200,
                                                !.items = SelectQuery(store, call[p].a)]
                   ELSE ListFailed(call[p])]
    /\ UNCHANGED <<store, secret, lock, rowids, tieOrder>>

StatsStart(p) ==
    /\ call[p].op = "idle"
    /\ call' = [call EXCEPT ![p] =
                   [op |-> "stats", pc |-> "total", total_messages |-> 0,
                    senders_count |-> 0, messages_per_sender |-> << >>,
                    first_message_ts |-> None, last_message_ts |-> None,
                    err |-> FALSE]]
    /\ UNCHANGED <<store, secret, lock, rowids, tieOrder>>

\* The exception path of get_stats: zeros, an empty list and no timestamps.
StatsFailed(c) ==
    [c EXCEPT !.pc = "done", !.total_messages = 0, !.senders_count = 0,
              !.messages_per_sender = << >>, !.first_message_ts = None,
              !.last_message_ts = None, !.err = TRUE]

StatsTotal(p, up) ==
    /\ call[p].op = "stats" /\ call[p].pc = "total"
    /\ call' = [call EXCEPT ![p] =
                   IF up THEN [call[p] EXCEPT !.pc = "senders",
                                                !.total_messages = TotalQuery(store)]
                   ELSE StatsFailed(call[p])]
    /\ UNCHANGED <<store, secret, lock, rowids, tieOrder>>

StatsSenders(p, up) ==
    /\ call[p].op = "stats" /\ call[p].pc = "senders"
    /\ call' = [call EXCEPT ![p] =
                   IF up THEN [call[p] EXCEPT !.pc = "top",
                                                !.senders_count = SendersQuery(store)]
                   ELSE StatsFailed(call[p])]
    /\ UNCHANGED <<store, secret, lock, rowids, tieOrder>>

StatsTop(p, up) ==
    /\ call[p].op = "stats" /\ call[p].pc = "top"
    /\ call' = [call EXCEPT ![p] =
                   IF up THEN [call[p] EXCEPT !.pc = "range",
                                     !.messages_per_sender =
                                         TopQuery(Scan(store, rowids), tieOrder)]
                   ELSE StatsFailed(call[p])]
    /\ UNCHANGED <<store, secret, lock, rowids, tieOrder>>

StatsRange(p, up) ==
    /\ call[p].op = "stats" /\ call[p].pc = "range"
    /\ call' = [call EXCEPT ![p] =
                   IF up THEN [call[p] EXCEPT !.pc = "done",
                                                !.first_message_ts = MinTs(store),
                                                !.last_message_ts = MaxTs(store)]
                   ELSE StatsFailed(call[p])]
    /\ UNCHANGED <<store, secret, lock, rowids, tieOrder>>

\* settings.is_ready() and db.test_connection().
ReadyStatus(sec, up) == IF sec # None /\ Len(sec) > 0 /\ up THEN 200 ELSE 503

HealthReady(p, up) ==
    /\ call[p].op = "idle"
    /\ call' = [call EXCEPT ![p] =
                   [op |-> "health", pc |-> "done", status |-> ReadyStatus(secret, up)]]
    /\ UNCHANGED <<store, secret, lock, rowids, tieOrder>>

\* The response is sent and the worker is free again.
Return(p) ==
    /\ call[p].pc = "done"
    /\ call' = [q \in Procs |->
                   IF q = p THEN Idle
                   ELSE IF IsInsert(call[q])
                        THEN [call[q] EXCEPT !.after = @ \ {p}]
                        ELSE call[q]]
    /\ UNCHANGED <<store, secret, lock, rowids, tieOrder>>

Next ==
    \/ \E p \in Procs : \E b \in Bodies : \E sig \in SigsFor(b) :
         \E t \in 1..MaxClock : WebhookStart(p, sig, b, t)
    \/ \E p \in Procs : \E a \in DirectArgs : \E t \in 1..MaxClock : InsertStart(p, a, t)
    \/ \E p \in Procs : \E up \in BOOLEAN : InsertExec(p, up)
    \/ \E p \in Procs : \E up \in BOOLEAN : InsertCommit(p, up)
    \/ \E p \in Procs : \E a \in ListArgs : ListStart(p, a)
    \/ \E p \in Procs : \E up \in BOOLEAN : ListCount(p, up)
    \/ \E p \in Procs : \E up \in BOOLEAN : ListSelect(p, up)
    \/ \E p \in Procs : StatsStart(p)
    \/ \E p \in Procs : \E up \in BOOLEAN : StatsTotal(p, up)
    \/ \E p \in Procs : \E up \in BOOLEAN : StatsSenders(p, up)
    \/ \E p \in Procs : \E up \in BOOLEAN : StatsTop(p, up)
    \/ \E p \in Procs : \E up \in BOOLEAN : StatsRange(p, up)
    \/ \E p \in Procs : \E up \in BOOLEAN : HealthReady(p, up)
    \/ \E p \in Procs : Return(p)

Spec == Init /\ [][Next]_vars

(***************************************************************************)
(* The read path on a given table: GET /messages with every combination of *)
(* filters, limit and offset, on every table of up to three messages.      *)
(***************************************************************************)
QueryIds == {<<97>>, <<98>>, <<99>>}

\* Sender and text of the stored messages: "+1" saying "Hi", "+2" without
\* text, "+2" saying "Hi".
QuerySenderTexts ==
    {<<(<<43, 49>>), (<<72, 105>>)>>, <<(<<43, 50>>), None>>, <<(<<43, 50>>), (<<72, 105>>)>>}

QueryTs == {<<49, 90>>, <<50, 90>>}

QueryRows(id) ==
    {Row(Msg(id, st[1], <<43, 57>>, ts, st[2]), CreatedAt(1)) :
        st \in QuerySenderTexts, ts \in QueryTs}

\* Every table holding at most one row for each id.
QueryStores ==
    {S \in SUBSET UNION {QueryRows(id) : id \in QueryIds} :
        \A r1, r2 \in S : r1.message_id = r2.message_id => r1 = r2}

\* from: absent, "", "+1"; since: absent, "", "2Z"; q: absent, "", "h".
QueryArgs ==
    {[limit |-> l, offset |-> o, from_msisdn |-> f, since |-> t, q |-> q] :
        l \in 1..MaxLimit, o \in 0..MaxOffset,
        f \in {None, << >>, <<43, 49>>},
        t \in {None, << >>, <<50, 90>>},
        q \in {None, << >>, <<104>>}}

\* The message_ids of table S, least first: the rows were inserted in the
\* order of their ids.
IdsOf(S) == SortKeys({r.message_id : r \in S})

InitQuery ==
    /\ store \in QueryStores
    /\ secret = K1
    /\ lock = 0
    /\ call = [p \in Procs |-> Idle]
    /\ rowids = IdsOf(store)
    /\ tieOrder = "asc"

NextQuery ==
    \/ \E a \in QueryArgs : ListStart(1, a)
    \/ \E up \in BOOLEAN : ListCount(1, up)
    \/ \E up \in BOOLEAN : ListSelect(1, up)
    \/ Return(1)

SpecQuery == InitQuery /\ [][NextQuery]_vars

(***************************************************************************)
(* GET /stats on a given table of more senders than the top list holds.    *)
(***************************************************************************)
NumStatSenders == TopN + ExtraSenders

\* The senders "+0" .. "+9", "+10", "+11", ...
StatSender(i) == IF i <= 10 THEN <<43, 47 + i>> ELSE <<43, 49, 37 + i>>

\* How many messages the i-th sender has: between 1 and MaxPerSender,
\* turning with i and shift.
StatCount(i, shift) == 1 + ((i + shift) % MaxPerSender)

\* The tables: any set of the senders has messages; their timestamps turn
\* through "1Z", "2Z", "3Z".
StatRows(present, shift) ==
    {Row(Msg(<<96 + ik[1], 48 + ik[2]>>, StatSender(ik[1]), <<43, 57>>,
             <<49 + ((ik[1] + ik[2] + shift) % 3), 90>>, None), CreatedAt(1)) :
        ik \in {x \in present \X (1..MaxPerSender) : x[2] <= StatCount(x[1], shift)}}

Reverse(seq) == [i \in 1..Len(seq) |-> seq[Len(seq) + 1 - i]]

\* The rows were inserted in the order of their ids, or in the reverse.
InitStats ==
    /\ \E present \in SUBSET (1..NumStatSenders) : \E shift \in 0..MaxPerSender :
         store = StatRows(present, shift)
    /\ secret = K1
    /\ lock = 0
    /\ call = [p \in Procs |-> Idle]
    /\ rowids \in {IdsOf(store), Reverse(IdsOf(store))}
    /\ tieOrder \in TieOrders

NextStats ==
    \/ StatsStart(1)
    \/ \E up \in BOOLEAN : StatsTotal(1, up)
    \/ \E up \in BOOLEAN : StatsSenders(1, up)
    \/ \E up \in BOOLEAN : StatsTop(1, up)
    \/ \E up \in BOOLEAN : StatsRange(1, up)
    \/ Return(1)

SpecStats == InitStats /\ [][NextStats]_vars

(***************************************************************************)
(* POST /webhook with correctly signed payloads whose from, to and ts run  *)
(* over every short string of an alphabet.                                 *)
(***************************************************************************)
\* Every string over alphabet A of at most n characters.
Strings(A, n) == UNION {[1..k -> A] : k \in 0..n}

\* "+", "1", "a" and the Arabic-Indic digit three (U+0663).
PhoneChars == {43, 49, 97, 1635}

\* The values of from and to: a missing key, or a string.
Phones == {None} \cup Strings(PhoneChars, MaxPhoneLen)

\* "0", "1", "+" and "Z".
TsChars == {48, 49, 43, 90}

\* The values of ts: a missing key, or a string.
Timestamps == {None} \cup Strings(TsChars, MaxTsLen)

\* Payloads that vary one of from, to and ts, the other fields valid.
ValidateObjs ==
    {Msg(<<97>>, f, <<43, 57>>, <<49, 90>>, <<72, 105>>) : f \in Phones}
        \cup {Msg(<<97>>, <<43, 49>>, t, <<49, 90>>, <<72, 105>>) : t \in Phones}
        \cup {Msg(<<97>>, <<43, 49>>, <<43, 57>>, ts, <<72, 105>>) : ts \in Timestamps}

InitValidate ==
    /\ store = {}
    /\ secret = K1
    /\ lock = 0
    /\ call = [p \in Procs |-> Idle]
    /\ rowids = << >>
    /\ tieOrder = "asc"

NextValidate ==
    \/ \E o \in ValidateObjs : \E t \in 1..MaxClock :
         WebhookStart(1, Hmac(K1, Body("object", o)), Body("object", o), t)
    \/ \E up \in BOOLEAN : InsertExec(1, up)
    \/ \E up \in BOOLEAN : InsertCommit(1, up)
    \/ Return(1)

SpecValidate == InitValidate /\ [][NextValidate]_vars

(***************************************************************************)
(* GET /messages with a text query, on tables whose first message has any  *)
(* short text and whose second, if there is one, has none.                 *)
(***************************************************************************)
\* "H", "%", "_" and the capital E with acute accent (U+00C9).
TextChars == {72, 37, 95, 201}

\* "h", "%", "_", and the small and the capital E with acute accent.
QChars == {104, 37, 95, 233, 201}

TextStores ==
    {{Row(Msg(<<97>>, <<43, 49>>, <<43, 57>>, <<49, 90>>, t), CreatedAt(1))} \cup rest :
        t \in {None} \cup Strings(TextChars, MaxStoredText),
        rest \in {{}, {Row(Msg(<<98>>, <<43, 49>>, <<43, 57>>, <<50, 90>>, None),
                            CreatedAt(1))}}}

\* The non-empty queries, with a window that takes in the whole table.
TextArgs ==
    {[limit |-> 2, offset |-> 0, from_msisdn |-> None, since |-> None, q |-> q] :
        q \in Strings(QChars, MaxQLen) \ {<< >>}}

InitText ==
    /\ store \in TextStores
    /\ secret = K1
    /\ lock = 0
    /\ call = [p \in Procs |-> Idle]
    /\ rowids = IdsOf(store)
    /\ tieOrder = "asc"

NextText ==
    \/ \E a \in TextArgs : ListStart(1, a)
    \/ \E up \in BOOLEAN : ListCount(1, up)
    \/ \E up \in BOOLEAN : ListSelect(1, up)
    \/ Return(1)

SpecText == InitText /\ [][NextText]_vars

(***************************************************************************)
(* Properties of the ingestion path (specification Spec).                  *)
(***************************************************************************)
\* The signature is missing, empty, or not the hex HMAC of the body under
\* the configured secret (no signature is good when the secret is unset).
SigBad(sec, body, sig) ==
    sig.kind \in {"absent", "empty"} \/ ~Truthy(sec) \/ sig # Hmac(sec, body)

\* The payload is an object whose fields pass the validation rules.
PayloadValid(body) == body.kind = "object" /\ WebhookRequestOk(body.obj)

\* A webhook request that was valid and correctly signed.
ValidSigned(c) ==
    c.op = "webhook" /\ ~SigBad(secret, c.body, c.sig) /\ PayloadValid(c.body)

RowsOf(id) == {r \in store : r.message_id = id}

\* C1 (idempotent ingestion): if a valid, correctly signed request for a
\* message_id that was not stored and that no other insert raced was answered,
\* and then a second valid, correctly signed request with the same message_id
\* (whatever its other fields) was answered, the database reachable in both,
\* then both got 200, the first as created and the second as duplicate, and
\* the table holds exactly one row for the id: the first request's fields with
\* the first call's created_at.
C1_Idempotent ==
    \A p, q \in Procs :
        LET c1 == call[p]
            c2 == call[q]
        IN  ( /\ p # q
              /\ ValidSigned(c1) /\ c1.pc = "done"
              /\ ValidSigned(c2) /\ c2.pc = "done"
              /\ c1.body.obj.message_id = c2.body.obj.message_id
              /\ p \in c2.after
              /\ ~c1.pre /\ c1.raced = {}
              /\ ~c1.envFault /\ ~c2.envFault )
            => /\ c1.status = 200 /\ c1.result = "created"
               /\ c2.status = 200 /\ c2.result = "duplicate"
               /\ RowsOf(c1.body.obj.message_id) = {Row(c1.body.obj, c1.created_at)}

\* Two successive ingests of one message_id were answered, the second with
\* other fields and at another clock reading than the first.
C1_Witness ==
    \E p, q \in Procs :
        /\ p # q
        /\ ValidSigned(call[p]) /\ call[p].pc = "done" /\ call[p].result = "created"
        /\ ValidSigned(call[q]) /\ call[q].pc = "done" /\ call[q].result = "duplicate"
        /\ p \in call[q].after
        /\ ~call[p].pre /\ call[p].raced = {}
        /\ call[q].body.obj.message_id = call[p].body.obj.message_id
        /\ call[q].body.obj # call[p].body.obj
        /\ call[q].created_at # call[p].created_at

\* The arguments respect the declared types of insert_message (all str but
\* the optional text).
TypedArgs(a) == a.message_id # None /\ a.from # None /\ a.to # None /\ a.ts # None

\* Two insert_message calls of one message_id that overlapped, the key not
\* stored when either began, the database reachable throughout.
Racing(p, q) ==
    /\ p # q
    /\ IsInsert(call[p]) /\ IsInsert(call[q])
    /\ call[p].result \in {"pending", "created", "duplicate", "insert_error"}
    /\ call[q].result \in {"pending", "created", "duplicate", "insert_error"}
    /\ call[p].args.message_id = call[q].args.message_id
    /\ TypedArgs(call[p].args) /\ TypedArgs(call[q].args)
    /\ q \in call[p].raced /\ p \in call[q].raced
    /\ ~call[p].pre /\ ~call[q].pre
    /\ ~call[p].envFault /\ ~call[q].envFault

\* C2 (racing inserts): when two insert_message calls with the same
\* message_id, not yet stored, overlap and both have returned, exactly one
\* returned Created and the other Duplicate, neither StorageFailure, and the
\* table holds exactly one row for the id.
C2_RacingInserts ==
    \A p, q \in Procs :
        (Racing(p, q) /\ call[p].pc = "done" /\ call[q].pc = "done")
        => /\ {call[p].result, call[q].result} = {"created", "duplicate"}
           /\ Cardinality(RowsOf(call[p].args.message_id)) = 1

\* Two racing inserts have both returned, the loser having waited for the
\* winner's commit.
C2_Witness ==
    \E p, q \in Procs :
        /\ Racing(p, q) /\ call[p].pc = "done" /\ call[q].pc = "done"
        /\ call[p].result = "created" /\ call[q].result = "duplicate"

\* C3 (signature rejection), as claimed: a request whose signature is
\* missing, empty or not the HMAC of its body is answered 401 with result
\* invalid_signature, and the table is unchanged.
C3_SignatureRejection ==
    [][\A p \in Procs :
          ( /\ call[p].op = "idle" /\ call'[p].op = "webhook"
            /\ SigBad(secret, call'[p].body, call'[p].sig) )
          => /\ call'[p].pc = "done"
             /\ call'[p].result = "invalid_signature"
             /\ call'[p].status = 401
             /\ store' = store]_vars

\* C4 (pipeline order), as claimed: every answered request ended in one of
\* 401 invalid signature, 422 malformed or invalid payload, 500 storage
\* error, 200 stored; a bad signature gives 401 whatever the payload, a good
\* signature with a bad payload 422, and the store is called only after both
\* passed.
C4_PipelineOrder ==
    \A p \in Procs :
        call[p].op = "webhook" =>
            LET c == call[p]
                bad == SigBad(secret, c.body, c.sig)
            IN  /\ c.pc = "done" =>
                       \/ c.result = "invalid_signature" /\ c.status = 401
                       \/ c.result = "validation_error" /\ c.status = 422
                       \/ c.result = "insert_error" /\ c.status = 500
                       \/ c.result \in {"created", "duplicate"} /\ c.status = 200
                /\ (c.pc = "done" /\ bad) => c.result = "invalid_signature"
                /\ (c.pc = "done" /\ ~bad /\ ~PayloadValid(c.body))
                       => c.result = "validation_error"
                /\ (c.pc \in {"exec", "commit"}
                        \/ c.result \in {"insert_error", "created", "duplicate"})
                       => (~bad /\ PayloadValid(c.body))

\* C9 (insert outcome taxonomy), as claimed: insert_message returns
\* Duplicate only if a row with the message_id was stored, Created only if it
\* wrote its row, and StorageFailure for every other failure of the write,
\* an integrity error that is no key collision included, leaving the table
\* unchanged.
C9_InsertOutcomes ==
    [][\A p \in Procs :
          (IsInsert(call[p]) /\ InFlight(call[p]) /\ call'[p].pc = "done") =>
              LET c == call'[p]
                  row == Row(c.args, c.created_at)
              IN  /\ c.result = "duplicate" =>
                         (RowsOf(c.args.message_id) # {} /\ store' = store)
                  /\ c.result = "created" =>
                         (row \notin store /\ store' = store \cup {row})
                  /\ c.result = "insert_error" => store' = store
                  /\ (RowsOf(c.args.message_id) = {} /\ c.result # "created")
                         => c.result = "insert_error"]_vars

\* C10 (row lifecycle): in every step every stored row stays as it is, no
\* second row appears for a stored message_id, and the table changes only by
\* gaining the row of an insert that returns Created in that step.
C10_RowLifecycle ==
    [][/\ \A r \in store : r \in store'
       /\ \A r \in store' \ store : \A o \in store : o.message_id # r.message_id
       /\ store' # store =>
              \E p \in Procs :
                  /\ IsInsert(call[p]) /\ call[p].pc = "commit"
                  /\ call'[p].pc = "done" /\ call'[p].result = "created"
                  /\ store' = store \cup {Row(call[p].args, call[p].created_at)}]_vars

\* A stored row has survived a later insert of its message_id with other
\* fields, and a listing and a statistics call have been answered.
C10_Witness ==
    /\ \E p \in Procs :
        /\ IsInsert(call[p]) /\ call[p].pc = "done" /\ call[p].result = "duplicate"
        /\ \E r \in store :
              /\ r.message_id = call[p].args.message_id
              /\ r # Row(call[p].args, call[p].created_at)
              /\ r.from_msisdn # call[p].args.from
    /\ \E q \in Procs : call[q].op \in {"list", "stats"} /\ call[q].pc = "done"

(***************************************************************************)
(* Properties of the read path (specifications SpecQuery and SpecStats).   *)
(***************************************************************************)
\* A listing of worker 1 that was answered without a storage error.
Listed == call[1].op = "list" /\ call[1].pc = "done" /\ ~call[1].err

Min(a, b) == IF a < b THEN a ELSE b

Max(a, b) == IF a > b THEN a ELSE b

\* The order of the listing on the returned items: timestamp, then
\* message_id, both as strings.
KeyLt(i1, i2) ==
    \/ StrLt(i1.ts, i2.ts)
    \/ i1.ts = i2.ts /\ StrLt(i1.message_id, i2.message_id)

\* C5 (listing order): the items of a listing are rows that pass the filters,
\* strictly ascending by (timestamp, message_id), and the i-th item is
\* preceded in that order by exactly offset + i - 1 of the rows that pass the
\* filters: the listing is the window [offset, offset + limit) of the one
\* sorted sequence of those rows, so that it is determined by the table and
\* the arguments, and consecutive pages neither repeat nor skip a row.
C5_ListingOrder ==
    Listed =>
        LET a == call[1].a
            items == call[1].items
            M == {Item(r) : r \in {x \in store : WhereClause(a, x)}}
        IN  /\ \A i \in 1..Len(items) : items[i] \in M
            /\ \A i \in 1..(Len(items) - 1) : KeyLt(items[i], items[i + 1])
            /\ \A i \in 1..Len(items) :
                   Cardinality({m \in M : KeyLt(m, items[i])}) = a.offset + i - 1
            /\ Len(items) = Min(a.limit, Max(0, Cardinality(M) - a.offset))

\* A filtered page past the first holds two rows of one timestamp, in the
\* order of their ids, and a third row follows on the next page.
C5_Witness ==
    /\ Listed
    /\ call[1].a.offset = 1 /\ call[1].a.limit = 2
    /\ call[1].a.since # None
    /\ Len(call[1].items) = 2
    /\ call[1].items[1].ts = call[1].items[2].ts
    /\ call[1].total = 3

\* q is a substring of text when letter case is ignored.
ContainsIgnoreCase(t, q) ==
    \E i \in 0..(Len(t) - Len(q)) :
        \A j \in 1..Len(q) : PyLowerChar(t[i + j]) = PyLowerChar(q[j])

\* The row satisfies every filter that was supplied (is not None).
SatisfiesFilters(a, r) ==
    /\ (a.from_msisdn # None => r.from_msisdn = a.from_msisdn)
    /\ (a.since # None => StrLe(a.since, r.ts))
    /\ (a.q # None => (r.text # None /\ ContainsIgnoreCase(r.text, a.q)))

Matching(a) == {r \in store : SatisfiesFilters(a, r)}

\* C6 (pagination total), as claimed: total is the number of stored rows that
\* match the filters, whatever limit and offset, and the listing holds
\* min(limit, max(0, total - offset)) items.
C6_PaginationTotal ==
    Listed =>
        /\ call[1].total = Cardinality(Matching(call[1].a))
        /\ Len(call[1].items) =
               Min(call[1].a.limit, Max(0, call[1].total - call[1].a.offset))

\* C7 (filter composition), as claimed: the rows counted and returned are
\* exactly the stored rows that satisfy every supplied filter, the empty
\* string included: as many are counted, every item is one of them, and a
\* window that covers them all returns them all.
C7_FilterComposition ==
    Listed =>
        LET a == call[1].a
            returned == {call[1].items[i] : i \in 1..Len(call[1].items)}
            wanted == {Item(r) : r \in Matching(a)}
        IN  /\ call[1].total = Cardinality(wanted)
            /\ returned \subseteq wanted
            /\ (a.offset = 0 /\ a.limit >= Cardinality(wanted)) => returned = wanted

\* A statistics call of worker 1 that was answered without a storage error.
Counted == call[1].op = "stats" /\ call[1].pc = "done" /\ ~call[1].err

SendersOf(S) == {r.from_msisdn : r \in S}

RowCount(S, sender) == Cardinality({r \in S : r.from_msisdn = sender})

\* C8 (aggregation): total_messages is the number of rows, senders_count the
\* number of distinct senders; messages_per_sender lists min(10, senders)
\* distinct senders, each with its number of rows, by falling count, and no
\* listed sender has fewer rows than one left out; first and last timestamp
\* are the least and greatest stored timestamp, absent on an empty table,
\* where the counts are 0 and the list is empty.
C8_Aggregation ==
    Counted =>
        LET c == call[1]
            top == c.messages_per_sender
            listed == {top[i].from : i \in 1..Len(top)}
        IN  /\ c.total_messages = Cardinality(store)
            /\ c.senders_count = Cardinality(SendersOf(store))
            /\ Len(top) = Min(TopN, Cardinality(SendersOf(store)))
            /\ Cardinality(listed) = Len(top)
            /\ \A i \in 1..Len(top) :
                   /\ top[i].from \in SendersOf(store)
                   /\ top[i].count = RowCount(store, top[i].from)
            /\ \A i \in 1..(Len(top) - 1) : top[i].count >= top[i + 1].count
            /\ \A o \in SendersOf(store) \ listed : \A i \in 1..Len(top) :
                   RowCount(store, o) <= top[i].count
            /\ IF store = {}
               THEN /\ c.first_message_ts = None /\ c.last_message_ts = None
                    /\ c.total_messages = 0 /\ c.senders_count = 0 /\ top = << >>
               ELSE /\ \E r \in store : r.ts = c.first_message_ts
                    /\ \E r \in store : r.ts = c.last_message_ts
                    /\ \A r \in store :
                           StrLe(c.first_message_ts, r.ts) /\ StrLe(r.ts, c.last_message_ts)

\* More than ten senders of unequal counts: the list is cut at ten, with a
\* sender left out that has as many rows as the last one listed.
C8_Witness ==
    /\ Counted
    /\ call[1].senders_count > TopN
    /\ Len(call[1].messages_per_sender) = TopN
    /\ call[1].messages_per_sender[1].count > call[1].messages_per_sender[TopN].count
    /\ \E o \in SendersOf(store) :
          /\ \A i \in 1..TopN : call[1].messages_per_sender[i].from # o
          /\ RowCount(store, o) = call[1].messages_per_sender[TopN].count
    /\ call[1].first_message_ts # call[1].last_message_ts

(***************************************************************************)
(* Degraded reads (specification Spec).                                    *)
(***************************************************************************)
\* The items are the rows of table S from position offset + 1 in the order
\* of (timestamp, message_id), at most limit of them.
TrueRows(S, a, items) ==
    LET M == {Item(r) : r \in S} IN
    /\ \A i \in 1..Len(items) :
           /\ items[i] \in M
           /\ Cardinality({m \in M : KeyLt(m, items[i])}) = a.offset + i - 1
    /\ Len(items) = Min(a.limit, Max(0, Cardinality(M) - a.offset))

\* C11 (degraded read): every step that ends a listing leaves the table as
\* it was and is answered 200.  If the database was unreachable or a query
\* raised, the answer is an empty item list and total 0, whatever had been
\* read before the failure.  If not, the items are the stored rows in order,
\* also when the listing began after another listing had failed.
C11_DegradedRead ==
    [][\A p \in Procs :
          (call[p].op = "list" /\ call[p].pc # "done" /\ call'[p].pc = "done") =>
              /\ store' = store
              /\ call'[p].status = 200
              /\ IF call'[p].err
                 THEN call'[p].items = << >> /\ call'[p].total = 0
                 ELSE TrueRows(store, call[p].a, call'[p].items)]_vars

\* A listing failed at its second query after the first had counted rows,
\* and a listing begun after that failure has returned the stored rows.
C11_Witness ==
    \E p, q \in Procs :
        /\ p # q /\ store # {}
        /\ call[p].op = "list" /\ call[p].pc = "done" /\ call[p].err
        /\ call[p].total = 0 /\ call[p].items = << >> /\ call[p].status = 200
        /\ call[q].op = "list" /\ call[q].pc = "done" /\ ~call[q].err
        /\ call[q].afterFailure /\ call[q].items # << >>

(***************************************************************************)
(* Properties of the validator (specification SpecValidate).               *)
(***************************************************************************)
\* "+" followed by one or more of the ASCII digits 0-9.
AsciiPhone(v) ==
    /\ v # None /\ Len(v) >= 2 /\ v[1] = 43
    /\ \A i \in 2..Len(v) : v[i] >= 48 /\ v[i] <= 57

\* C12 (phone validation), as claimed: a payload whose other fields are valid
\* passes validation exactly if from and to are each "+" followed by one or
\* more ASCII digits; any other value is answered 422 validation_error, and
\* no stored row has another from or to.
C12_PhoneValidation ==
    /\ call[1].op = "webhook" =>
           LET c == call[1]
               o == c.body.obj
           IN  IF AsciiPhone(o.from) /\ AsciiPhone(o.to)
               THEN (o.ts # None /\ validate_timestamp(o.ts))
                        => c.result # "validation_error"
               ELSE c.pc = "done" /\ c.result = "validation_error" /\ c.status = 422
    /\ \A r \in store : AsciiPhone(r.from_msisdn) /\ AsciiPhone(r.to_msisdn)

(***************************************************************************)
(* Properties of the text query (specification SpecText).                  *)
(***************************************************************************)
\* C13 (text query), as claimed: a listing with a query q counts and returns
\* exactly the stored rows that have a text and whose text contains q as a
\* literal substring when letter case is ignored, "%" and "_" standing for
\* themselves.
C13_TextQuery ==
    Listed =>
        LET a == call[1].a
            returned == {call[1].items[i] : i \in 1..Len(call[1].items)}
            wanted == {Item(r) : r \in {x \in store :
                          x.text # None /\ ContainsIgnoreCase(x.text, a.q)}}
        IN  returned = wanted /\ call[1].total = Cardinality(wanted)

\* An ISO-8601 UTC timestamp with the "Z" suffix: on the abbreviated
\* grammar, one or more ASCII digits followed by "Z".
IsoUtcZ(s) ==
    /\ s # None /\ Len(s) >= 2 /\ s[Len(s)] = 90
    /\ \A i \in 1..(Len(s) - 1) : s[i] >= 48 /\ s[i] <= 57

\* C15 (stored timestamp invariant): every stored row has a timestamp that
\* is ISO-8601 ending in "Z" and a created_at that is ISO-8601 UTC ending in
\* "Z", and a webhook request reaches the store only with such a timestamp.
C15_StoredTimestamps ==
    /\ \A r \in store : IsoUtcZ(r.ts) /\ IsoUtcZ(r.created_at)
    /\ \A p \in Procs :
           (call[p].op = "webhook" /\ call[p].result # "validation_error")
               => IsoUtcZ(call[p].body.obj.ts)

\* A row with a three-character timestamp is stored, and a request whose
\* timestamp parses but lacks the "Z" has been answered 422.
C15_Witness ==
    /\ \E r \in store : Len(r.ts) = 3
    /\ call[1].op = "webhook" /\ call[1].pc = "done"
    /\ call[1].result = "validation_error"
    /\ call[1].body.obj.ts # None
    /\ FromIsoFormatOk(call[1].body.obj.ts)

(***************************************************************************)
(* Order of the top senders (specification SpecStats).                     *)
(***************************************************************************)
\* The senders of table S by falling number of rows, senders of one number
\* by rising sender if the sorter keeps tied rows in order and by falling
\* sender if it reverses them: a list computed from the set of rows alone.
RECURSIVE RankedSenders(_, _, _)
RankedSenders(S, G, tie) ==
    IF G = {} THEN << >>
    ELSE LET before(a, b) ==
                 \/ RowCount(S, a) > RowCount(S, b)
                 \/ RowCount(S, a) = RowCount(S, b)
                        /\ (IF tie = "asc" THEN StrLt(a, b) ELSE StrLt(b, a))
             m == CHOOSE g \in G : \A o \in G : ~before(o, g)
         IN  <<[from |-> m, count |-> RowCount(S, m)]>> \o RankedSenders(S, G \ {m}, tie)

\* C14 (deterministic top senders): the messages_per_sender list of a
\* statistics call is the first ten of the senders ranked by count and then
\* by sender, a list that the set of stored rows determines: the order in
\* which the rows were inserted does not show in it, neither among senders
\* of equal counts nor in which of them the cut-off leaves out.
C14_DeterministicTop ==
    Counted =>
        call[1].messages_per_sender =
            LimitOffset(RankedSenders(store, SendersOf(store), tieOrder), TopN, 0)

\* More than ten senders, inserted greatest sender first; two listed senders
\* have equal counts, and a sender left out has as many rows as the last one
\* listed.
C14_Witness ==
    /\ Counted
    /\ Len(rowids) > TopN
    /\ \E r1, r2 \in store :
          /\ r1.message_id = rowids[1] /\ r2.message_id = rowids[Len(rowids)]
          /\ StrLt(r2.from_msisdn, r1.from_msisdn)
    /\ Len(call[1].messages_per_sender) = TopN
    /\ call[1].messages_per_sender[TopN - 1].count = call[1].messages_per_sender[TopN].count
    /\ \E o \in SendersOf(store) :
          /\ \A i \in 1..TopN : call[1].messages_per_sender[i].from # o
          /\ RowCount(store, o) = call[1].messages_per_sender[TopN].count

(***************************************************************************)
(* Reads that race with inserts (specification Spec).                      *)
(***************************************************************************)
\* C16 (list snapshot consistency), as claimed: the total and the items of
\* every answered listing describe one state of the table, so that there
\* are no more items than the total and exactly
\* min(limit, max(0, total - offset)) of them.
C16_ListSnapshot ==
    \A p \in Procs :
        (call[p].op = "list" /\ call[p].pc = "done" /\ ~call[p].err) =>
            /\ Len(call[p].items) <= call[p].total
            /\ Len(call[p].items) =
                   Min(call[p].a.limit, Max(0, call[p].total - call[p].a.offset))

\* C16 as amended: the total is the number of rows that match the WHERE
\* clause when the count query runs, and the items are the window of the
\* rows that match it when the select query runs, with the total as counted;
\* rows are only added in between, so the total is at most the number n of
\* rows matching at the select and there are min(limit, max(0, n - offset))
\* items.
C16_ListReads ==
    [][\A p \in Procs :
          LET a == call[p].a
              n == Cardinality({r \in store : WhereClause(a, r)})
          IN  /\ (call[p].op = "list" /\ call[p].pc = "count" /\ call'[p].pc = "select")
                     => call'[p].total = n
              /\ (call[p].op = "list" /\ call[p].pc = "select" /\ ~call'[p].err
                      /\ call'[p].pc = "done")
                     => /\ call'[p].total = call[p].total
                        /\ call[p].total <= n
                        /\ TrueRows({r \in store : WhereClause(a, r)}, a, call'[p].items)
                        /\ Len(call'[p].items) = Min(a.limit, Max(0, n - a.offset))]_vars

\* A listing counted an empty table and then read a row that an insert had
\* committed in between: one item, total 0.
C16_Witness ==
    \E p \in Procs :
        /\ call[p].op = "list" /\ call[p].pc = "done" /\ ~call[p].err
        /\ call[p].total = 0 /\ Len(call[p].items) = 1

\* The sum of the counts of a messages_per_sender list.
RECURSIVE SumCounts(_)
SumCounts(list) ==
    IF list = << >> THEN 0 ELSE Head(list).count + SumCounts(Tail(list))

\* C17 (stats single-pass consistency), as claimed: the fields of every
\* answered statistics call describe one state of the table: senders_count
\* is at most total_messages, the listed counts sum to at most
\* total_messages and to exactly that when there are at most ten senders,
\* the list has min(10, senders_count) entries, and the first and the last
\* timestamp are absent exactly when total_messages is 0.
C17_StatsSinglePass ==
    \A p \in Procs :
        (call[p].op = "stats" /\ call[p].pc = "done" /\ ~call[p].err) =>
            LET c == call[p] IN
            /\ c.senders_count <= c.total_messages
            /\ SumCounts(c.messages_per_sender) <= c.total_messages
            /\ c.senders_count <= TopN
                   => SumCounts(c.messages_per_sender) = c.total_messages
            /\ Len(c.messages_per_sender) = Min(TopN, c.senders_count)
            /\ (c.first_message_ts = None) <=> (c.total_messages = 0)
            /\ (c.last_message_ts = None) <=> (c.total_messages = 0)

====
